---------------------------- MODULE Spec2Model ----------------------------
(***************************************************************************)
(* Model of wavg's Vizu class (src/main.py): the colour registry of a      *)
(* session, the bar-chart-race data preparer and the animated-scatter data *)
(* preparer.  Tables are pandas DataFrames; the pandas calls the code      *)
(* makes (reindex, interpolate, ffill, bfill, melt, groupby, map) are      *)
(* modelled by what they do with their default arguments.                  *)
(***************************************************************************)
EXTENDS Integers, Sequences, FiniteSets, TLC

VARIABLES
    sessions,   \* session id -> [built, df, colors]: the Vizu objects
    rng,        \* state of the process-wide generator of module random
    extUses,    \* number of draws other code made from that generator
    hist,       \* session id -> log of the preparer calls and their results
    table,      \* pure-function checks: the session's table (self.df)
    args,       \* pure-function checks: the arguments of the call
    out         \* pure-function checks: what the preparer returned

vars == <<sessions, rng, extUses, hist, table, args, out>>

(***************************************************************************)
(* Bounds of the model.                                                    *)
(***************************************************************************)
FirstYear == 8      \* first period a wide table can have a column for
MaxSpan == 3        \* the periods of a wide table are FirstYear..FirstYear+MaxSpan
MaxRows == 2        \* rows of a wide table
MaxT == 2           \* observed times of a long table lie in -1/2 .. MaxT+1/2
MaxObs == 2         \* observations per entity of a long table
NumSessions == 2    \* Vizu objects alive in one process
MaxExtUses == 1     \* draws by other code from the shared generator

(***************************************************************************)
(* Values: a cell of a DataFrame is NaN or a number.  Numbers are exact    *)
(* rationals in lowest terms, so equal numbers are equal records.          *)
(***************************************************************************)
RECURSIVE Gcd(_, _)
Gcd(a, b) == IF b = 0 THEN a ELSE Gcd(b, a % b)

Abs(n) == IF n < 0 THEN 0 - n ELSE n

NaN == [nan |-> TRUE, num |-> 0, den |-> 1]

Rat(n, d) ==
    LET g == Gcd(Abs(n), d)
    IN  [nan |-> FALSE, num |-> n \div g, den |-> d \div g]

Num(n) == Rat(n, 1)

\* the sequence f with its elements computed once (TLC would otherwise
\* compute an element of [i \in 1..n |-> e] again at every use)
Listed(f) == f \o <<>>

SetMax(S) == CHOOSE x \in S : \A y \in S : y <= x
SetMin(S) == CHOOSE x \in S : \A y \in S : x <= y

(***************************************************************************)
(* Column labels are strings of characters; str(year), str.isnumeric and   *)
(* pd.to_numeric work on the characters.                                   *)
(***************************************************************************)
Digits == <<"0", "1", "2", "3", "4", "5", "6", "7", "8", "9">>

DigitChars == {Digits[i] : i \in 1..10}

DigitVal(c) == (CHOOSE i \in 1..10 : Digits[i] = c) - 1

RECURSIVE StrNat(_)
StrNat(n) ==
    IF n < 10 THEN <<Digits[n + 1]>>
    ELSE StrNat(n \div 10) \o <<Digits[(n % 10) + 1]>>

\* str(year)
Str(n) == IF n < 0 THEN <<"-">> \o StrNat(0 - n) ELSE StrNat(n)

\* col.isnumeric()
IsNumeric(label) ==
    /\ Len(label) > 0
    /\ \A i \in 1..Len(label) : label[i] \in DigitChars

RECURSIVE ParseNat(_)
ParseNat(label) ==
    IF Len(label) = 0 THEN 0
    ELSE 10 * ParseNat(SubSeq(label, 1, Len(label) - 1))
         + DigitVal(label[Len(label)])

\* pd.to_numeric on a label that str(year) produced
ToNumeric(label) ==
    IF label[1] = "-" THEN 0 - ParseNat(Tail(label)) ELSE ParseNat(label)

(***************************************************************************)
(* The generator of module random.  random.seed(str) derives the state     *)
(* from the characters of the string alone; randint(0, 0xFFFFFF) returns   *)
(* 24 bits of the state and advances it.                                   *)
(***************************************************************************)
MaxColor == 16777215    \* 0xFFFFFF

RngMod == MaxColor + 1

LabelCode(g) ==
    CASE g = "X" -> 88
      [] g = "Y" -> 89
      [] g = "A" -> 65
      [] g = "B" -> 66
      [] OTHER -> 63

\* random.seed(group)
Seed(g) == (LabelCode(g) * 104729 + 40503) % RngMod

Advance(state) == (state * 101 + 12345) % RngMod

\* random.randint(0, 0xFFFFFF) from `state`
Randint(state) ==
    [value |-> (state * 77 + 1) % (MaxColor + 1), next |-> Advance(state)]

HexDigits == <<"0", "1", "2", "3", "4", "5", "6", "7",
               "8", "9", "A", "B", "C", "D", "E", "F">>

RECURSIVE HexNat(_)
HexNat(n) ==
    IF n < 16 THEN <<HexDigits[n + 1]>>
    ELSE HexNat(n \div 16) \o <<HexDigits[(n % 16) + 1]>>

RECURSIVE ZeroPad(_, _)
ZeroPad(s, width) == IF Len(s) >= width THEN s ELSE ZeroPad(<<"0">> \o s, width)

\* '#%06X' % n
FormatColor(n) == <<"#">> \o ZeroPad(HexNat(n), 6)

(***************************************************************************)
(* The colour assigner, Vizu._get_colors.                                  *)
(***************************************************************************)
\* df[group_field].unique(): the distinct labels, in order of first appearance
Unique(column) ==
    LET firsts == {i \in 1..Len(column) :
                      \A j \in 1..(i - 1) : column[j] # column[i]}
    IN  [k \in 1..Cardinality(firsts) |->
            column[CHOOSE i \in firsts :
                       Cardinality({q \in firsts : q < i}) = k - 1]]

\* group not in self.colors
NotKnown(colors, g) == g \notin DOMAIN colors

DrawColorUnseeded(g, state) == Randint(state)

\* random.seed(group); random.randint(0, 0xFFFFFF)
DrawColor(g, state) == Randint(Seed(g))

StoreAlone(colors, g, c) == (g :> c)

\* self.colors[group] = c
Store(colors, g, c) == (g :> c) @@ colors

RECURSIVE AssignColors(_, _, _)
\* the loop over unique_groups: the registry and the generator after it
AssignColors(colors, state, groups) ==
    IF Len(groups) = 0 THEN [colors |-> colors, rng |-> state]
    ELSE LET g == Head(groups)
         IN  IF NotKnown(colors, g)
             THEN LET r == DrawColor(g, state)
                  IN  AssignColors(Store(colors, g, FormatColor(r.value)),
                                   r.next, Tail(groups))
             ELSE AssignColors(colors, state, Tail(groups))

\* df[group_field].map(self.colors)
MapColors(colors, column) ==
    [i \in 1..Len(column) |->
        IF column[i] \in DOMAIN colors THEN colors[column[i]] ELSE <<>>]

RECURSIVE AssignUncached(_, _, _)
AssignUncached(colors, state, groups) ==
    IF Len(groups) = 0 THEN [colors |-> colors, rng |-> state]
    ELSE LET r == Randint(state)
         IN  AssignUncached((Head(groups) :> FormatColor(r.value)) @@ colors,
                            r.next, Tail(groups))

GetColorsUncached(colors, state, column) ==
    LET a == AssignUncached(colors, state, Listed(Unique(column)))
    IN  [colors |-> a.colors, rng |-> a.rng,
         column |-> MapColors(a.colors, column)]

\* _get_colors(group_field, df): the registry, the generator and the
\* returned colour column
GetColors(colors, state, column) ==
    LET a == AssignColors(colors, state, Listed(Unique(column)))
    IN  [colors |-> a.colors, rng |-> a.rng,
         column |-> Listed(MapColors(a.colors, column))]

(***************************************************************************)
(* pandas fills.  interpolate() is linear over positions and fills in the  *)
(* forward direction: NaNs before the first number stay, NaNs after the    *)
(* last number take the last number.                                       *)
(***************************************************************************)
\* the value at position i on the line through (i0, a) and (i1, b)
Lerp(i0, a, i1, b, i) ==
    Rat(a.num * b.den * (i1 - i) + b.num * a.den * (i - i0),
        a.den * b.den * (i1 - i0))

Known(v) == {j \in 1..Len(v) : ~v[j].nan}

InterpolateNoTrailingFill(v) ==
    LET known == Known(v) IN
    Listed([i \in 1..Len(v) |->
        IF ~v[i].nan THEN v[i]
        ELSE LET before == {j \in known : j < i}
                 after == {j \in known : j > i}
             IN  IF before = {} \/ after = {} THEN NaN
                 ELSE Lerp(SetMax(before), v[SetMax(before)],
                           SetMin(after), v[SetMin(after)], i)])

\* Series.interpolate(): method='linear', limit_direction='forward'
Interpolate(v) ==
    LET known == Known(v) IN
    Listed([i \in 1..Len(v) |->
        IF ~v[i].nan THEN v[i]
        ELSE LET before == {j \in known : j < i}
                 after == {j \in known : j > i}
             IN  IF before = {} THEN NaN
                 ELSE IF after = {} THEN v[SetMax(before)]
                 ELSE Lerp(SetMax(before), v[SetMax(before)],
                           SetMin(after), v[SetMin(after)], i)])

\* Series.ffill()
Ffill(v) ==
    LET known == Known(v) IN
    Listed([i \in 1..Len(v) |->
        IF ~v[i].nan THEN v[i]
        ELSE LET before == {j \in known : j < i}
             IN  IF before = {} THEN NaN ELSE v[SetMax(before)]])

BfillNothing(v) == v

\* Series.bfill()
Bfill(v) ==
    LET known == Known(v) IN
    Listed([i \in 1..Len(v) |->
        IF ~v[i].nan THEN v[i]
        ELSE LET after == {j \in known : j > i}
             IN  IF after = {} THEN NaN ELSE v[SetMin(after)]])

(***************************************************************************)
(* Tables.  A wide table has a name column, a group column and the columns *)
(* `cols`; a long table has the columns name, group, time and x.  Times of *)
(* a long table are counted in halves, so that 2010.5 is a time.           *)
(***************************************************************************)
NoTable == [kind |-> "none", cols |-> {}, rows |-> <<>>]

\* the columns of self.df whose label passes col.isnumeric()
OriginalTimeCols(df) ==
    IF df.kind = "wide" THEN {c \in df.cols : IsNumeric(c)} ELSE {}

AllYearsExclusive(time_start, time_end) ==
    Listed([i \in 1..(time_end - time_start) |-> Str(time_start + i - 1)])

\* [str(year) for year in range(time_start, time_end + 1)]
AllYears(time_start, time_end) ==
    Listed([i \in 1..(time_end - time_start + 1) |-> Str(time_start + i - 1)])

\* set_index(...)[original_time_cols].reindex(columns=all_years): one row
Reindexed(df, row, all_years) ==
    LET kept == OriginalTimeCols(df)
    IN  Listed([i \in 1..Len(all_years) |->
                   IF all_years[i] \in kept THEN row.cells[all_years[i]] ELSE NaN])

InterpolateDown(df, all_years) ==
    LET n == Len(df.rows)
        column(i) == [r \in 1..n |-> Reindexed(df, df.rows[r], all_years)[i]]
    IN  Listed([r \in 1..n |->
                   Listed([i \in 1..Len(all_years) |-> Interpolate(column(i))[r]])])

\* df_interpolated.interpolate(axis=1): every row, along the time axis
InterpolatedRows(df, all_years) ==
    Listed([r \in 1..Len(df.rows) |->
               Interpolate(Reindexed(df, df.rows[r], all_years))])

\* reset_index().melt(id_vars=[name, group], var_name='time',
\* value_name='value'), then pd.to_numeric(df_long['time']): one output
\* row per input row and column, column after column
Melt(df, all_years, values) ==
    LET n == Len(df.rows)
    IN  [k \in 1..(Len(all_years) * n) |->
            LET y == ((k - 1) \div n) + 1
                r == ((k - 1) % n) + 1
            IN  [name |-> df.rows[r].name, group |-> df.rows[r].group,
                 time |-> ToNumeric(all_years[y]), value |-> values[r][y]]]

\* _prepare_bar_chart_race_data before the colour column is attached
BarRaceLong(df, time_start, time_end) ==
    LET all_years == AllYears(time_start, time_end)
    IN  Melt(df, all_years, InterpolatedRows(df, all_years))

\* df_long['color'] = <colour column>
WithColor(rows, column) ==
    [k \in 1..Len(rows) |-> rows[k] @@ [color |-> column[k]]]

\* _prepare_bar_chart_race_data(name_field, group_field, time_start,
\* time_end): the returned table, the registry and the generator
PrepareBarChartRaceData(df, colors, state, time_start, time_end) ==
    LET long == Listed(BarRaceLong(df, time_start, time_end))
        c == GetColors(colors, state,
                       Listed([k \in 1..Len(long) |-> long[k].group]))
    IN  [rows |-> Listed(WithColor(long, c.column)),
         colors |-> c.colors, rng |-> c.rng]

(***************************************************************************)
(* The scatter preparer, Vizu._prepare_animated_scatter_data.              *)
(***************************************************************************)
Text(s) == [nan |-> FALSE, str |-> s]

Ceil2(h) == 0 - ((0 - h) \div 2)

\* int(t) for the time t = h/2: truncation toward zero
IntOf(h) == IF h >= 0 THEN h \div 2 ELSE 0 - ((0 - h) \div 2)

\* int(df[time_field].min())
MinTime(df) == IntOf(SetMin({df.rows[k].time : k \in 1..Len(df.rows)}))

MaxTimeCeil(df) == Ceil2(SetMax({df.rows[k].time : k \in 1..Len(df.rows)}))

\* int(df[time_field].max())
MaxTime(df) == IntOf(SetMax({df.rows[k].time : k \in 1..Len(df.rows)}))

\* np.arange(min_time, max_time + 1)
AllTimes(df) ==
    Listed([i \in 1..(MaxTime(df) - MinTime(df) + 1) |-> MinTime(df) + i - 1])

Names == <<"A", "B">>   \* the entity names, in sorted order

\* the keys of df.groupby(name_field), sorted
EntityNames(df) ==
    LET present == {i \in 1..Len(Names) :
                       \E k \in 1..Len(df.rows) : df.rows[k].name = Names[i]}
        nth(j) == CHOOSE i \in present :
                      Cardinality({q \in present : q < i}) = j - 1
    IN  [j \in 1..Cardinality(present) |-> Names[nth(j)]]

\* group_df.set_index(time_field).reindex(all_times): the rows of one
\* entity at the integer times, rows of NaN where it has none
ReindexedFrame(df, name, all_times) ==
    [i \in 1..Len(all_times) |->
        LET hit == {k \in 1..Len(df.rows) :
                       /\ df.rows[k].name = name
                       /\ df.rows[k].time = 2 * all_times[i]}
        IN  IF hit = {} THEN [name |-> NaN, group |-> NaN, x |-> NaN]
            ELSE LET k == CHOOSE k \in hit : TRUE
                 IN  [name |-> Text(df.rows[k].name),
                      group |-> Text(df.rows[k].group),
                      x |-> df.rows[k].x]]

FillNumericNoInterpolation(v) == Bfill(Ffill(v))

\* .interpolate().ffill().bfill() on a numeric column
FillNumeric(v) == Bfill(Ffill(Interpolate(v)))

\* .interpolate().ffill().bfill() on a column of strings, which
\* interpolate() leaves alone
FillText(v) == Bfill(Ffill(v))

\* one entity's frame after the fills
FilledFrame(df, name, all_times) ==
    LET f == Listed(ReindexedFrame(df, name, all_times))
        n == Len(all_times)
        names == FillText(Listed([i \in 1..n |-> f[i].name]))
        groups == FillText(Listed([i \in 1..n |-> f[i].group]))
        xs == FillNumeric(Listed([i \in 1..n |-> f[i].x]))
    IN  [i \in 1..n |->
            [time |-> all_times[i], name |-> names[i],
             group |-> groups[i], x |-> xs[i]]]

\* _prepare_animated_scatter_data(time_field, name_field):
\* pd.concat(interpolated_dfs).reset_index()
PrepareAnimatedScatterData(df) ==
    LET all_times == AllTimes(df)
        n == Len(all_times)
        e == Listed(EntityNames(df))
        frames == Listed([j \in 1..Len(e) |->
                             Listed(FilledFrame(df, e[j], all_times))])
    IN  [k \in 1..(Len(e) * n) |->
            frames[((k - 1) \div n) + 1][((k - 1) % n) + 1]]

\* create_animated_scatter up to df_long['color'] = ...: the table handed to
\* the renderer, the registry and the generator
ScatterWithColors(df, colors, state, group_field) ==
    LET long == Listed(PrepareAnimatedScatterData(df))
        c == GetColors(colors, state,
                       Listed([k \in 1..Len(long) |->
                                  IF group_field = "name" THEN long[k].name.str
                                  ELSE long[k].group.str]))
    IN  [rows |-> Listed(WithColor(long, c.column)),
         colors |-> c.colors, rng |-> c.rng]

(***************************************************************************)
(* The tables the checks run on.                                           *)
(***************************************************************************)
Years == FirstYear..(FirstYear + MaxSpan)

NotesLabel == <<"N", "o", "t", "e", "s">>

CellValues == {NaN, Num(10), Num(30)}

\* the first row of a wide table: entity A of group X
FirstRows(cols) ==
    {[name |-> "A", group |-> "X",
      cells |-> [c \in cols |-> IF c = NotesLabel THEN NaN ELSE f[ToNumeric(c)]]] :
        f \in [Years -> CellValues]}

\* a further row: the same key again, or entity B of group Y
MoreRows(cols) ==
    {[name |-> k[1], group |-> k[2], cells |-> [c \in cols |-> Num(30)]] :
        k \in {<<"A", "X">>, <<"B", "Y">>}}

RECURSIVE RowSeqs(_, _)
RowSeqs(cols, n) ==
    IF n = 1 THEN {<<r>> : r \in FirstRows(cols)}
    ELSE RowSeqs(cols, n - 1) \cup
         {Append(s, r) : s \in {q \in RowSeqs(cols, n - 1) : Len(q) = n - 1},
                         r \in MoreRows(cols)}

ColumnSets ==
    {{Str(y) : y \in Y} \cup extra :
        Y \in {Years, {y \in Years : y % 2 = FirstYear % 2}},
        extra \in {{}, {NotesLabel}}}

WideTables ==
    UNION {{[kind |-> "wide", cols |-> cols, rows |-> rows] :
               rows \in RowSeqs(cols, MaxRows)} : cols \in ColumnSets}

HalfTimes == (0 - 1)..(2 * MaxT + 1)

RECURSIVE SortedSeq(_)
SortedSeq(S) ==
    IF S = {} THEN <<>> ELSE <<SetMin(S)>> \o SortedSeq(S \ {SetMin(S)})

\* the rows of one entity: an observation at each time of `obs`
EntityRows(name, group, obs) ==
    LET times == SortedSeq(DOMAIN obs)
    IN  [i \in 1..Len(times) |->
            [name |-> name, group |-> group, time |-> times[i],
             x |-> obs[times[i]]]]

ObsOf(values, most) ==
    UNION {[T -> values] :
              T \in {S \in SUBSET HalfTimes : Cardinality(S) <= most}}

LongTables ==
    {[kind |-> "long", cols |-> {},
      rows |-> EntityRows("A", "X", a) \o EntityRows("B", "Y", b)] :
        a \in {o \in ObsOf(CellValues, MaxObs) : DOMAIN o # {}},
        b \in ObsOf({Num(30)}, 1)}

(***************************************************************************)
(* Specifications of the two preparers as functions of the table.          *)
(***************************************************************************)
Idle == [op |-> "none"]

NoArgs == [time_start |-> 0, time_end |-> 0]

InitBar ==
    /\ table \in WideTables
    /\ \E time_start \in (FirstYear - 1)..(FirstYear + MaxSpan) :
         \E time_end \in (time_start - 2)..(FirstYear + MaxSpan + 1) :
            args = [time_start |-> time_start, time_end |-> time_end]
    /\ out = Idle
    /\ sessions = <<>> /\ rng = 0 /\ extUses = 0 /\ hist = <<>>

CallBar ==
    /\ out' = [op |-> "bar",
               rows |-> BarRaceLong(table, args.time_start, args.time_end)]
    /\ UNCHANGED <<sessions, rng, extUses, hist, table, args>>

NextBar == CallBar

SpecBar == InitBar /\ [][NextBar]_vars

InitScatter ==
    /\ table \in LongTables
    /\ args = NoArgs
    /\ out = Idle
    /\ sessions = <<>> /\ rng = 0 /\ extUses = 0 /\ hist = <<>>

CallScatter ==
    /\ out' = [op |-> "scatter", min_time |-> MinTime(table),
               max_time |-> MaxTime(table),
               rows |-> PrepareAnimatedScatterData(table)]
    /\ UNCHANGED <<sessions, rng, extUses, hist, table, args>>

NextScatter == CallScatter

SpecScatter == InitScatter /\ [][NextScatter]_vars

(***************************************************************************)
(* The sessions of one process: every Vizu object has its own table and    *)
(* registry; the generator of module random is shared by the process.      *)
(***************************************************************************)
SessionIds == 1..NumSessions

WideRow(name, group) ==
    [name |-> name, group |-> group,
     cells |-> (Str(FirstYear) :> Num(10)) @@ (Str(FirstYear + 2) :> Num(30))]

\* the tables a session is constructed with
SessionTables ==
    {[kind |-> "wide", cols |-> {Str(FirstYear), Str(FirstYear + 2)},
      rows |-> <<WideRow("A", "X"), WideRow("B", "Y")>>]}
    \cup
    {[kind |-> "long", cols |-> {},
      rows |-> EntityRows("A", "X", (0 :> Num(10)) @@ (4 :> Num(30)))
               \o EntityRows("B", "Y", (2 :> Num(30)))]}

Unbuilt == [built |-> FALSE, df |-> NoTable, colors |-> <<>>]

Init ==
    /\ sessions = [s \in SessionIds |-> Unbuilt]
    /\ rng = 1
    /\ extUses = 0
    /\ hist = [s \in SessionIds |-> [returned |-> <<>>, repeated |-> FALSE]]
    /\ table = NoTable /\ args = NoArgs /\ out = Idle

\* Vizu(df): self.df = df.copy(); self.colors = {}
Construct(s, df) ==
    /\ ~sessions[s].built
    /\ sessions' = [sessions EXCEPT ![s] = [built |-> TRUE, df |-> df, colors |-> <<>>]]
    /\ UNCHANGED <<rng, extUses, hist, table, args, out>>

\* the log of a session after `call` returned `rows`: what every call
\* returned last, and whether a call was made more than once
Returned(h, call, rows) ==
    [returned |-> (call :> rows) @@ h.returned,
     repeated |-> h.repeated \/ call \in DOMAIN h.returned]

\* self._prepare_bar_chart_race_data(name_field, group_field, time_start,
\* time_end), as create_bar_chart_race calls it
BarRace(s, time_start, time_end) ==
    /\ sessions[s].built
    /\ \E r \in {PrepareBarChartRaceData(sessions[s].df, sessions[s].colors, rng,
                                         time_start, time_end)} :
          LET call == [op |-> "bar", group_field |-> "group",
                       time_start |-> time_start, time_end |-> time_end]
          IN  /\ sessions' = [sessions EXCEPT ![s].colors = r.colors]
              /\ rng' = r.rng
              /\ hist' = [hist EXCEPT ![s] = Returned(@, call, r.rows)]
    /\ UNCHANGED <<extUses, table, args, out>>

\* self._prepare_animated_scatter_data(time_field, name_field) and
\* df_long['color'] = self._get_colors(group_field, df_long), as
\* create_animated_scatter calls them; a table without the time column
\* raises KeyError before anything changes
Scatter(s, group_field) ==
    /\ sessions[s].built
    /\ sessions[s].df.kind = "long"
    /\ \E r \in {ScatterWithColors(sessions[s].df, sessions[s].colors, rng,
                                   group_field)} :
          LET call == [op |-> "scatter", group_field |-> group_field,
                       time_start |-> 0, time_end |-> 0]
          IN  /\ sessions' = [sessions EXCEPT ![s].colors = r.colors]
              /\ rng' = r.rng
              /\ hist' = [hist EXCEPT ![s] = Returned(@, call, r.rows)]
    /\ UNCHANGED <<extUses, table, args, out>>

\* other code of the process draws from module random
UseRandom ==
    /\ extUses < MaxExtUses
    /\ rng' = Advance(rng)
    /\ extUses' = extUses + 1
    /\ UNCHANGED <<sessions, hist, table, args, out>>

Next ==
    \/ \E s \in SessionIds : \E df \in SessionTables : Construct(s, df)
    \/ \E s \in SessionIds : BarRace(s, FirstYear, FirstYear + 2)
    \/ \E s \in SessionIds : \E group_field \in {"group", "name"} :
          Scatter(s, group_field)
    \/ UseRandom

Spec == Init /\ [][Next]_vars

(***************************************************************************)
(* Properties of the bar-race preparer (under SpecBar).                    *)
(***************************************************************************)
BarDone == out.op = "bar"

Range == args.time_start..args.time_end

\* the input row an output row was made from: melt emits the rows of the
\* table once per column
RowOf(k) == table.rows[((k - 1) % Len(table.rows)) + 1]

\* the times at which an input row has a value: a column whose label is
\* the decimal numeral of the time holds a number
KnownTimes(row) ==
    {y \in (FirstYear - 2)..(FirstYear + MaxSpan + 2) :
        /\ Str(y) \in table.cols
        /\ ~row.cells[Str(y)].nan}

InputAt(row, y) == row.cells[Str(y)]

\* t lies on the line through the known values at t0 and t1
OnLine(value, t0, v0, t1, v1, t) ==
    /\ ~value.nan
    /\ value.num * v0.den * v1.den * (t1 - t0)
         = value.den * (v0.num * v1.den * (t1 - t) + v1.num * v0.den * (t - t0))

\* C1 as claimed: a time before the first or after the last known value of
\* its row has an unset (NaN) value in the output.
C1_UnsetOutsideKnownSpan ==
    BarDone =>
        \A k \in 1..Len(out.rows) :
            LET K == KnownTimes(RowOf(k))
                t == out.rows[k].time
            IN  (K = {} \/ t < SetMin(K) \/ t > SetMax(K)) => out.rows[k].value.nan

\* C1 as amended: only the known values inside the requested range count;
\* a time before the first of them (or a row with none) is unset, a time
\* after the last of them carries that last value.
C1_LeadingUnsetTrailingCarried ==
    BarDone =>
        \A k \in 1..Len(out.rows) :
            LET K == KnownTimes(RowOf(k)) \cap Range
                t == out.rows[k].time
                v == out.rows[k].value
            IN  /\ (K = {} \/ t < SetMin(K)) => v.nan
                /\ (K # {} /\ t > SetMax(K)) => v = InputAt(RowOf(k), SetMax(K))

C1_Witness ==
    /\ BarDone
    /\ \E k \in 1..Len(out.rows) :
          LET K == KnownTimes(RowOf(k)) \cap Range
          IN  K # {} /\ out.rows[k].time > SetMax(K) /\ ~out.rows[k].value.nan
    /\ \E k \in 1..Len(out.rows) :
          LET K == KnownTimes(RowOf(k)) \cap Range
          IN  K # {} /\ out.rows[k].time < SetMin(K) /\ out.rows[k].value.nan

\* C2 as claimed: a time without an input value between two known values of
\* its row gets the linear interpolation of the two nearest known values,
\* whatever the requested range.
C2_InterpolatedWhateverRange ==
    BarDone =>
        \A k \in 1..Len(out.rows) :
            LET K == KnownTimes(RowOf(k))
                t == out.rows[k].time
                lo == {y \in K : y < t}
                hi == {y \in K : y > t}
            IN  (t \notin K /\ lo # {} /\ hi # {}) =>
                    OnLine(out.rows[k].value,
                           SetMax(lo), InputAt(RowOf(k), SetMax(lo)),
                           SetMin(hi), InputAt(RowOf(k), SetMin(hi)), t)

\* C2 as amended: the same, for the two nearest known values whose times lie
\* inside the requested range.
C2_InterpolatedWithinRange ==
    BarDone =>
        \A k \in 1..Len(out.rows) :
            LET K == KnownTimes(RowOf(k)) \cap Range
                t == out.rows[k].time
                lo == {y \in K : y < t}
                hi == {y \in K : y > t}
            IN  (t \notin K /\ lo # {} /\ hi # {}) =>
                    OnLine(out.rows[k].value,
                           SetMax(lo), InputAt(RowOf(k), SetMax(lo)),
                           SetMin(hi), InputAt(RowOf(k), SetMin(hi)), t)

\* 10 at FirstYear and 30 two periods later give 20 in between
C2_Witness ==
    /\ BarDone
    /\ \E k \in 1..Len(out.rows) :
          /\ out.rows[k].time = FirstYear + 1
          /\ KnownTimes(RowOf(k)) \cap Range = {FirstYear, FirstYear + 2}
          /\ InputAt(RowOf(k), FirstYear) = Num(10)
          /\ InputAt(RowOf(k), FirstYear + 2) = Num(30)
          /\ out.rows[k].value = Num(20)

Keys == {<<table.rows[r].name, table.rows[r].group>> : r \in 1..Len(table.rows)}

RowsFor(key, t) ==
    {k \in 1..Len(out.rows) :
        /\ out.rows[k].name = key[1]
        /\ out.rows[k].group = key[2]
        /\ out.rows[k].time = t}

\* C3 as claimed: exactly one output row per distinct (entity, group) key
\* and time of the range, (distinct keys) x (time_end - time_start + 1) rows.
C3_OneRowPerDistinctKey ==
    BarDone =>
        /\ \A key \in Keys : \A t \in Range : Cardinality(RowsFor(key, t)) = 1
        /\ Len(out.rows) = Cardinality(Keys) * (args.time_end - args.time_start + 1)

\* C3 as amended: one output row per input row (a key that occurs twice in
\* the input occurs twice at every time) and per integer of the range, and
\* no other rows.
C3_OneRowPerInputRow ==
    BarDone =>
        /\ \A key \in Keys : \A t \in Range :
              Cardinality(RowsFor(key, t))
                = Cardinality({r \in 1..Len(table.rows) :
                      <<table.rows[r].name, table.rows[r].group>> = key})
        /\ \A k \in 1..Len(out.rows) :
              /\ <<out.rows[k].name, out.rows[k].group>> \in Keys
              /\ out.rows[k].time \in Range
        /\ Len(out.rows) = Len(table.rows) * Cardinality(Range)

C3_Witness ==
    /\ BarDone
    /\ Cardinality(Keys) < Len(table.rows)
    /\ Cardinality(Range) > 1
    /\ Len(out.rows) = Len(table.rows) * Cardinality(Range)

(***************************************************************************)
(* Properties of the scatter preparer (under SpecScatter).                 *)
(***************************************************************************)
ScatterDone == out.op = "scatter"

\* the entities of the input, in name order
InputEntities ==
    LET present == {i \in 1..Len(Names) :
                       \E k \in 1..Len(table.rows) : table.rows[k].name = Names[i]}
    IN  [j \in 1..Cardinality(present) |->
            Names[CHOOSE i \in present :
                      Cardinality({q \in present : q < i}) = j - 1]]

TimeRange == out.min_time..out.max_time

\* the output row of the j-th entity at time t
RowAt(j, t) == out.rows[(j - 1) * Cardinality(TimeRange) + (t - out.min_time) + 1]

\* the observations of an entity, as a function of the observed time
\* (in halves)
Observed(name) ==
    {table.rows[k].time : k \in {q \in 1..Len(table.rows) : table.rows[q].name = name}}

ObservationAt(name, h) ==
    table.rows[CHOOSE k \in 1..Len(table.rows) :
                   table.rows[k].name = name /\ table.rows[k].time = h].x

\* the observations at an integer time that carry a number
Usable(name) ==
    {h \in Observed(name) : h % 2 = 0 /\ ~ObservationAt(name, h).nan}

\* C4 as claimed: every entity of the input appears exactly once at every
\* integer time of [minTime, maxTime], and its numeric field is set in
\* every one of these rows.
C4_EveryEntityDenseAndSet ==
    ScatterDone =>
        \A j \in 1..Len(InputEntities) : \A t \in TimeRange :
            LET hits == {k \in 1..Len(out.rows) :
                            /\ out.rows[k].name = Text(InputEntities[j])
                            /\ out.rows[k].time = t}
            IN  /\ Cardinality(hits) = 1
                /\ \A k \in hits : ~out.rows[k].x.nan

\* C4 as amended: the output holds one row per entity of the input and
\* integer time of [minTime, maxTime] and no others; the rows of an entity
\* that has an observation at an integer time carry its name, and its
\* numeric field is set in all of them if it is set in one such observation.
C4_DenseAndSetForIntegerTimes ==
    ScatterDone =>
        /\ Len(out.rows) = Len(InputEntities) * Cardinality(TimeRange)
        /\ \A j \in 1..Len(InputEntities) : \A t \in TimeRange :
              /\ RowAt(j, t).time = t
              /\ (\E h \in Observed(InputEntities[j]) : h % 2 = 0)
                    => RowAt(j, t).name = Text(InputEntities[j])
              /\ Usable(InputEntities[j]) # {} => ~RowAt(j, t).x.nan

C4_Witness ==
    /\ ScatterDone
    /\ Len(InputEntities) = 2
    /\ Cardinality(TimeRange) > 2
    /\ \A j \in 1..2 : Cardinality(Usable(InputEntities[j])) = 1
    /\ \A k \in 1..Len(out.rows) : ~out.rows[k].x.nan

\* C5 as claimed: at an integer time without an observation, the field is
\* the linear interpolation of the two neighbouring observations, the first
\* observation before all of them and the last observation after all.
C5_FilledFromObservations ==
    ScatterDone =>
        \A j \in 1..Len(InputEntities) : \A t \in TimeRange :
            LET e == InputEntities[j]
                lo == {h \in Observed(e) : h < 2 * t}
                hi == {h \in Observed(e) : h > 2 * t}
                x == RowAt(j, t).x
            IN  (2 * t) \notin Observed(e) =>
                    /\ (lo # {} /\ hi # {}) =>
                          OnLine(x, SetMax(lo), ObservationAt(e, SetMax(lo)),
                                 SetMin(hi), ObservationAt(e, SetMin(hi)), 2 * t)
                    /\ (lo = {} /\ hi # {}) => x = ObservationAt(e, SetMin(hi))
                    /\ (hi = {} /\ lo # {}) => x = ObservationAt(e, SetMax(lo))

\* C5 as amended: the same, where only the observations at an integer time
\* that carry a number count.
C5_FilledFromUsableObservations ==
    ScatterDone =>
        \A j \in 1..Len(InputEntities) : \A t \in TimeRange :
            LET e == InputEntities[j]
                lo == {h \in Usable(e) : h < 2 * t}
                hi == {h \in Usable(e) : h > 2 * t}
                x == RowAt(j, t).x
            IN  (2 * t) \notin Usable(e) =>
                    /\ (lo # {} /\ hi # {}) =>
                          OnLine(x, SetMax(lo), ObservationAt(e, SetMax(lo)),
                                 SetMin(hi), ObservationAt(e, SetMin(hi)), 2 * t)
                    /\ (lo = {} /\ hi # {}) => x = ObservationAt(e, SetMin(hi))
                    /\ (hi = {} /\ lo # {}) => x = ObservationAt(e, SetMax(lo))

\* 10 at time 0 and 30 at time 2 give 20 at time 1, and another entity,
\* observed once, carries its value to both sides
C5_Witness ==
    /\ ScatterDone
    /\ Len(InputEntities) = 2
    /\ out.min_time = 0 /\ out.max_time = 2
    /\ Usable("A") = {0, 4}
    /\ ObservationAt("A", 0) = Num(10) /\ ObservationAt("A", 4) = Num(30)
    /\ RowAt(1, 1).x = Num(20)
    /\ Usable("B") = {2}
    /\ RowAt(2, 0).x = Num(30) /\ RowAt(2, 2).x = Num(30)

AllObserved == {table.rows[k].time : k \in 1..Len(table.rows)}

\* C6 as claimed: minTime is the floor of the smallest and maxTime the
\* ceiling of the largest observed time, so every observed time lies in
\* [minTime, maxTime].
C6_FloorAndCeiling ==
    ScatterDone =>
        /\ 2 * out.min_time <= SetMin(AllObserved)
        /\ SetMin(AllObserved) < 2 * out.min_time + 2
        /\ 2 * out.max_time >= SetMax(AllObserved)
        /\ SetMax(AllObserved) > 2 * out.max_time - 2
        /\ \A h \in AllObserved : 2 * out.min_time <= h /\ h <= 2 * out.max_time

\* m is t = h/2 with its fraction dropped
Truncated(m, h) ==
    /\ h >= 0 => (2 * m <= h /\ h < 2 * m + 2)
    /\ h < 0 => (2 * m >= h /\ h > 2 * m - 2)

\* C6 as amended: minTime and maxTime are the smallest and the largest
\* observed time with the fraction dropped (rounded toward zero); every
\* observed integer time lies in [minTime, maxTime].
C6_TruncatedTowardZero ==
    ScatterDone =>
        /\ Truncated(out.min_time, SetMin(AllObserved))
        /\ Truncated(out.max_time, SetMax(AllObserved))
        /\ \A h \in AllObserved :
              h % 2 = 0 => (2 * out.min_time <= h /\ h <= 2 * out.max_time)

C6_Witness ==
    /\ ScatterDone
    /\ SetMax(AllObserved) % 2 = 1
    /\ SetMax(AllObserved) > 2 * out.max_time
    /\ SetMin(AllObserved) < 0
    /\ out.min_time = 0

(***************************************************************************)
(* Properties of the colour registry and of repeated calls (under Spec).   *)
(***************************************************************************)
HexChars == {HexDigits[i] : i \in 1..16}

\* '#' and exactly six uppercase hexadecimal digits
WellFormedColor(c) ==
    /\ Len(c) = 7
    /\ c[1] = "#"
    /\ \A i \in 2..7 : c[i] \in HexChars

Registry(s) == sessions[s].colors

\* C7: the colour of a label depends on the label alone: every registered
\* colour is '#RRGGBB', and a label registered in two sessions has the same
\* colour in both, whatever was coloured or drawn before.
C7_ColorOfLabelAlone ==
    \A s1 \in SessionIds : \A g \in DOMAIN Registry(s1) :
        /\ WellFormedColor(Registry(s1)[g])
        /\ \A s2 \in SessionIds :
              g \in DOMAIN Registry(s2) => Registry(s2)[g] = Registry(s1)[g]

\* two sessions hold the label X, one of them after other labels and after
\* other code drew from the generator
C7_Witness ==
    /\ extUses > 0
    /\ \E s1, s2 \in SessionIds :
          /\ DOMAIN Registry(s1) = {"X", "Y"}
          /\ {"A", "B", "X", "Y"} \subseteq DOMAIN Registry(s2)
          /\ Registry(s1)["X"] = Registry(s2)["X"]

\* C8: the registry of a session is append-only: no step removes a label
\* from it or changes the colour of a label.
C8_RegistryAppendOnly ==
    [][\A s \in SessionIds : \A g \in DOMAIN Registry(s) :
          /\ g \in DOMAIN sessions'[s].colors
          /\ sessions'[s].colors[g] = Registry(s)[g]]_vars

\* a registry that grew over several calls
C8_Witness ==
    \E s \in SessionIds :
        /\ Cardinality(DOMAIN hist[s].returned) >= 2
        /\ DOMAIN Registry(s) = {"A", "B", "X", "Y"}

\* a step that is a call of a preparer, and so of the colour assigner
PreparerStep ==
    /\ extUses' = extUses
    /\ \A s \in SessionIds : sessions'[s].built = sessions[s].built

\* C9: a call of the colour assigner changes nothing but the registry of
\* its session: not the tables, not another session's registry, not the
\* generator of the process.
C9_OnlyRegistryChanges ==
    [][PreparerStep =>
          /\ rng' = rng
          /\ \A s \in SessionIds : sessions'[s].df = sessions[s].df
          /\ Cardinality({s \in SessionIds :
                             sessions'[s].colors # Registry(s)}) <= 1]_vars

\* C10: a preparer call repeated with the same arguments on a session
\* returns the table it returned before, colours included, and no call
\* changes the table of a session.
C10_RepeatedCallSameTable ==
    [][\A s \in SessionIds :
          /\ sessions[s].built => sessions'[s].df = sessions[s].df
          /\ \A call \in DOMAIN hist[s].returned :
                hist'[s].returned[call] = hist[s].returned[call]]_vars

\* a call was repeated on a session that made other calls too, while other
\* code drew from the generator
C10_Witness ==
    /\ extUses > 0
    /\ \E s \in SessionIds :
          /\ hist[s].repeated
          /\ Cardinality(DOMAIN hist[s].returned) >= 2
          /\ \A call \in DOMAIN hist[s].returned :
                Len(hist[s].returned[call]) > 0

=============================================================================
